---- MODULE Spec2Model ----
(***************************************************************************)
(* Command line interface of ASReview (asreview/__main__.py): the two      *)
(* entry points main() and main_depr(), the argument parsers built by      *)
(* _parse_arguments() and by main(), and the dispatch to the external      *)
(* review functions review_oracle() and review_simulate().                 *)
(*                                                                         *)
(* A command line token is a string; Spell gives its characters, and the   *)
(* parsing operators (option lookup, abbreviation by prefix, int()) work   *)
(* on the characters.  Parsed values are tagged records, so that None, an  *)
(* integer, a string, a list and a boolean are all distinct values.        *)
(***************************************************************************)
EXTENDS Integers, Sequences, FiniteSets, TLC

VARIABLES entry, argv, pc, args, calls, stdout, stderr, exitcode, exc

vars == <<entry, argv, pc, args, calls, stdout, stderr, exitcode, exc>>

(***************************************************************************)
(* Bounds of the explored command lines.                                   *)
(***************************************************************************)
\* longest sys.argv[1:] drawn freely from TopVocab, and longest tail drawn
\* from ErrVocab after a mode name
MaxArgs == 3

\* longest option tail after `<mode> <dataset>`
MaxOpts == 4

(***************************************************************************)
(* Python values.                                                          *)
(***************************************************************************)
None == [t |-> "none"]

PyStr(s) == [t |-> "str", s |-> s]

PyInt(i) == [t |-> "int", i |-> i]

PyList(l) == [t |-> "list", l |-> l]

PyBool(b) == [t |-> "bool", b |-> b]

(***************************************************************************)
(* Characters of the tokens and option strings that occur.                 *)
(***************************************************************************)
Spell ==
   "oracle" :> <<"o", "r", "a", "c", "l", "e">> @@
   "simulate" :> <<"s", "i", "m", "u", "l", "a", "t", "e">> @@
   "oracl" :> <<"o", "r", "a", "c", "l">> @@
   "d" :> <<"d">> @@
   "1" :> <<"1">> @@
   "5" :> <<"5">> @@
   "-1" :> <<"-", "1">> @@
   "-h" :> <<"-", "h">> @@
   "--help" :> <<"-", "-", "h", "e", "l", "p">> @@
   "-V" :> <<"-", "V">> @@
   "--version" :> <<"-", "-", "v", "e", "r", "s", "i", "o", "n">> @@
   "--vers" :> <<"-", "-", "v", "e", "r", "s">> @@
   "-x" :> <<"-", "x">> @@
   "-m" :> <<"-", "m">> @@
   "--model" :> <<"-", "-", "m", "o", "d", "e", "l">> @@
   "-q" :> <<"-", "q">> @@
   "--query_strategy" :> <<"-", "-", "q", "u", "e", "r", "y", "_", "s", "t", "r", "a", "t", "e", "g", "y">> @@
   "-b" :> <<"-", "b">> @@
   "--balance_strategy" :> <<"-", "-", "b", "a", "l", "a", "n", "c", "e", "_", "s", "t", "r", "a", "t", "e", "g", "y">> @@
   "--n_instances" :> <<"-", "-", "n", "_", "i", "n", "s", "t", "a", "n", "c", "e", "s">> @@
   "--n_queries" :> <<"-", "-", "n", "_", "q", "u", "e", "r", "i", "e", "s">> @@
   "--embedding" :> <<"-", "-", "e", "m", "b", "e", "d", "d", "i", "n", "g">> @@
   "--config_file" :> <<"-", "-", "c", "o", "n", "f", "i", "g", "_", "f", "i", "l", "e">> @@
   "-s" :> <<"-", "s">> @@
   "--session-from-log" :> <<"-", "-", "s", "e", "s", "s", "i", "o", "n", "-", "f", "r", "o", "m", "-", "l", "o", "g">> @@
   "--prior_included" :> <<"-", "-", "p", "r", "i", "o", "r", "_", "i", "n", "c", "l", "u", "d", "e", "d">> @@
   "--prior_excluded" :> <<"-", "-", "p", "r", "i", "o", "r", "_", "e", "x", "c", "l", "u", "d", "e", "d">> @@
   "--n_prior_included" :> <<"-", "-", "n", "_", "p", "r", "i", "o", "r", "_", "i", "n", "c", "l", "u", "d", "e", "d">> @@
   "--n_prior_excluded" :> <<"-", "-", "n", "_", "p", "r", "i", "o", "r", "_", "e", "x", "c", "l", "u", "d", "e", "d">> @@
   "--log_file" :> <<"-", "-", "l", "o", "g", "_", "f", "i", "l", "e">> @@
   "-l" :> <<"-", "l">> @@
   "--save_model" :> <<"-", "-", "s", "a", "v", "e", "_", "m", "o", "d", "e", "l">> @@
   "--verbose" :> <<"-", "-", "v", "e", "r", "b", "o", "s", "e">> @@
   "-v" :> <<"-", "v">> @@
   "--n_prior" :> <<"-", "-", "n", "_", "p", "r", "i", "o", "r">> @@
   "--n_i" :> <<"-", "-", "n", "_", "i">>


Digit == {"0", "1", "2", "3", "4", "5", "6", "7", "8", "9"}

DigitVal ==
   "0" :> 0 @@ "1" :> 1 @@ "2" :> 2 @@ "3" :> 3 @@ "4" :> 4 @@
   "5" :> 5 @@ "6" :> 6 @@ "7" :> 7 @@ "8" :> 8 @@ "9" :> 9

\* str.startswith on character sequences
StartsWith(cs, prefix) ==
   /\ Len(prefix) <= Len(cs)
   /\ SubSeq(cs, 1, Len(prefix)) = prefix

AllDigits(cs) == \A k \in 1..Len(cs) : cs[k] \in Digit

\* the digits of an int() literal: digits, single underscores only between digits
IsDigitString(cs) ==
   /\ Len(cs) > 0
   /\ cs[1] \in Digit
   /\ cs[Len(cs)] \in Digit
   /\ \A k \in 1..Len(cs) : cs[k] \in Digit \cup {"_"}
   /\ \A k \in 1..(Len(cs) - 1) : ~(cs[k] = "_" /\ cs[k + 1] = "_")

RECURSIVE DigitsValue(_, _)
DigitsValue(cs, acc) ==
   IF cs = <<>> THEN acc
   ELSE IF Head(cs) = "_" THEN DigitsValue(Tail(cs), acc)
   ELSE DigitsValue(Tail(cs), 10 * acc + DigitVal[Head(cs)])

\* whether int(s) returns (TRUE) or raises ValueError (FALSE)
IntAccepts(cs) ==
   IF cs # <<>> /\ cs[1] \in {"+", "-"} THEN IsDigitString(Tail(cs))
   ELSE IsDigitString(cs)

\* the value of int(s) when it returns
IntValue(cs) ==
   IF cs[1] = "-" THEN 0 - DigitsValue(Tail(cs), 0)
   ELSE IF cs[1] = "+" THEN DigitsValue(Tail(cs), 0)
   ELSE DigitsValue(cs, 0)

\* argparse's _negative_number_matcher, '^-\d+$|^-\d*\.\d+$'
NegativeNumberLike(cs) ==
   /\ Len(cs) >= 2
   /\ cs[1] = "-"
   /\ \/ AllDigits(Tail(cs))
      \/ \E k \in 2..(Len(cs) - 1) :
            /\ cs[k] = "."
            /\ AllDigits(SubSeq(cs, 2, k - 1))
            /\ AllDigits(SubSeq(cs, k + 1, Len(cs)))

(***************************************************************************)
(* Collaborators imported by the module.                                   *)
(***************************************************************************)
\* asreview.config.AVAILABLE_MODI
AVAILABLE_MODI == <<"oracle", "simulate">>

\* asreview.__version__
__version__ == "__version__"

(***************************************************************************)
(* CLI defaults.                                                           *)
(***************************************************************************)
DEFAULT_MODEL == "lstm_pool"

DEFAULT_QUERY_STRATEGY == "rand_max"

DEFAULT_BALANCE_STRATEGY == "triple_balance"

DEFAULT_N_INSTANCES == 20

DEFAULT_N_PRIOR_INCLUDED == 10

DEFAULT_N_PRIOR_EXCLUDED == 10

DEFAULT_VERBOSE == 1

(***************************************************************************)
(* The argument parsers.  An argument is what add_argument registers.      *)
(***************************************************************************)
\* faulty variant of Option: the default is not passed on
Option_no_default(strings, dest, nargs, type, default) ==
   [option_strings |-> strings, dest |-> dest, action |-> "store",
    nargs |-> nargs, type |-> type, default |-> None]

\* add_argument of an option that stores its value(s)
Option(strings, dest, nargs, type, default) ==
   [option_strings |-> strings, dest |-> dest, action |-> "store",
    nargs |-> nargs, type |-> type, default |-> default]

\* add_argument of a positional
Positional(dest, nargs, type, default) ==
   [option_strings |-> {}, dest |-> dest, action |-> "store",
    nargs |-> nargs, type |-> type, default |-> default]

\* the -h/--help option every ArgumentParser adds
HelpOption ==
   [option_strings |-> {"-h", "--help"}, dest |-> "help", action |-> "help",
    nargs |-> "0", type |-> "str", default |-> None]

\* the options of both modes that precede the simulate-only ones
SharedOptions ==
   { Option({"-m", "--model"}, "model", "1", "str", PyStr(DEFAULT_MODEL)),
     Option({"-q", "--query_strategy"}, "query_strategy", "1", "str",
            PyStr(DEFAULT_QUERY_STRATEGY)),
     Option({"-b", "--balance_strategy"}, "balance_strategy", "1", "str",
            PyStr(DEFAULT_BALANCE_STRATEGY)),
     Option({"--n_instances"}, "n_instances", "1", "int",
            PyInt(DEFAULT_N_INSTANCES)),
     Option({"--n_queries"}, "n_queries", "1", "int", None),
     Option({"--embedding"}, "embedding_fp", "1", "str", None),
     Option({"--config_file"}, "config_file", "1", "str", None),
     Option({"-s", "--session-from-log"}, "src_log_fp", "1", "str", None),
     Option({"--prior_included"}, "prior_included", "*", "int", None),
     Option({"--prior_excluded"}, "prior_excluded", "*", "int", None) }

\* the options that only the simulation modus has
SimulateOptions ==
   { Option({"--n_prior_included"}, "n_prior_included", "1", "int",
            PyInt(DEFAULT_N_PRIOR_INCLUDED)),
     Option({"--n_prior_excluded"}, "n_prior_excluded", "1", "int",
            PyInt(DEFAULT_N_PRIOR_EXCLUDED)) }

\* logging and verbosity
LoggingOptions ==
   { Option({"--log_file", "-l"}, "log_file", "1", "str", None),
     Option({"--save_model"}, "save_model_fp", "1", "str", None),
     Option({"--verbose", "-v"}, "verbose", "1", "int", PyInt(DEFAULT_VERBOSE)) }

\* faulty variant of _parse_arguments: the simulate-only options are added
\* in every mode
_parse_arguments_all_modes(mode) ==
   [positional |-> Positional("dataset", "1", "str", None),
    optionals |-> {HelpOption} \cup SharedOptions \cup SimulateOptions
                  \cup LoggingOptions]

\* the parser for oracle and simulate
_parse_arguments(mode) ==
   [positional |-> Positional("dataset", "1", "str", None),
    optionals |-> {HelpOption} \cup SharedOptions
                  \cup (IF mode = "simulate" THEN SimulateOptions ELSE {})
                  \cup LoggingOptions]

\* faulty variant of TopParser: the subcommand defaults to False, not None
TopParser_false_default ==
   [positional |-> Positional("subcommand", "?", "modus", PyBool(FALSE)),
    optionals |-> { HelpOption,
                    [option_strings |-> {"-V", "--version"}, dest |-> "version",
                     action |-> "store_true", nargs |-> "0", type |-> "str",
                     default |-> PyBool(FALSE)] }]

\* the parser main() builds when there is no valid sub command
TopParser ==
   [positional |-> Positional("subcommand", "?", "modus", None),
    optionals |-> { HelpOption,
                    [option_strings |-> {"-V", "--version"}, dest |-> "version",
                     action |-> "store_true", nargs |-> "0", type |-> "str",
                     default |-> PyBool(FALSE)] }]

(***************************************************************************)
(* ArgumentParser.parse_args.                                              *)
(***************************************************************************)
OptionStrings(parser) == UNION {a.option_strings : a \in parser.optionals}

ActionOf(parser, s) == CHOOSE a \in parser.optionals : s \in a.option_strings

\* the namespace before any argument is read: every dest at its default
\* (the help option's dest is suppressed)
Defaults(parser) ==
   LET acts == {parser.positional} \cup (parser.optionals \ {HelpOption})
   IN  [d \in {a.dest : a \in acts} |->
          (CHOOSE a \in acts : a.dest = d).default]

\* the option strings a token that is no option string may abbreviate
\* (the forms with an attached value, --opt=value and -ovalue, are not among
\* the tokens explored)
_get_option_tuples(parser, tok) ==
   {o \in OptionStrings(parser) : StartsWith(Spell[o], Spell[tok])}

\* whether a token is an argument ("A"), an option ("O", with the option
\* string it stands for, "" when the parser has no such option), or an
\* ambiguous abbreviation
_parse_optional(parser, tok) ==
   LET cs == Spell[tok]
       m  == _get_option_tuples(parser, tok)
   IN  IF cs = <<>> \/ cs[1] # "-" THEN [k |-> "A", opt |-> ""]
       ELSE IF tok \in OptionStrings(parser) THEN [k |-> "O", opt |-> tok]
       ELSE IF Len(cs) = 1 THEN [k |-> "A", opt |-> ""]
       ELSE IF Cardinality(m) > 1 THEN [k |-> "ambiguous", opt |-> ""]
       ELSE IF Cardinality(m) = 1 THEN [k |-> "O", opt |-> CHOOSE o \in m : TRUE]
       ELSE IF NegativeNumberLike(cs) THEN [k |-> "A", opt |-> ""]
       ELSE [k |-> "O", opt |-> ""]

TypeError == [t |-> "error"]

\* the type conversion of one argument string
_get_value(action, tok) ==
   IF action.type = "int"
   THEN IF IntAccepts(Spell[tok]) THEN PyInt(IntValue(Spell[tok])) ELSE TypeError
   ELSE IF action.type = "modus"
   THEN PyBool(\E k \in 1..Len(AVAILABLE_MODI) : AVAILABLE_MODI[k] = tok)
   ELSE PyStr(tok)

\* the outcomes of parse_args: a namespace, SystemExit(2) after a usage
\* error, or SystemExit(0) after the help text
Parsed(ns) == [status |-> "ok", ns |-> ns, error |-> ""]

UsageError(kind) == [status |-> "error", ns |-> <<>>, error |-> kind]

HelpExit == [status |-> "help", ns |-> <<>>, error |-> ""]

\* faulty variant of StoreValues: no value gives None (`values or None`)
StoreValues_or_none(vals, n) ==
   IF n = 0 THEN None ELSE PyList([k \in 1..n |-> vals[k].i])

\* nargs="*": the converted values are stored as a list, in the order given;
\* no value gives the empty list
StoreValues(vals, n) == PyList([k \in 1..n |-> vals[k].i])

\* the last index of the run of arguments that starts at i (i - 1 when empty)
RECURSIVE ArgRunEnd(_, _)
ArgRunEnd(kinds, i) ==
   IF i <= Len(kinds) /\ kinds[i].k = "A"
   THEN ArgRunEnd(kinds, i + 1)
   ELSE i - 1

\* what remains after the last option: the positional takes the first
\* argument left, the rest is unrecognized; a positional that was never given
\* keeps its default when it is optional ('?') and is an error otherwise
Finish(parser, toks, i, ns, seen, extras) ==
   LET p    == parser.positional
       take == ~seen /\ i <= Len(toks)
       v    == _get_value(p, toks[i])
       rest == IF take THEN SubSeq(toks, i + 1, Len(toks))
               ELSE SubSeq(toks, i, Len(toks))
   IN  IF take /\ v = TypeError THEN UsageError("invalid value")
       ELSE IF ~seen /\ ~take /\ p.nargs # "?" THEN UsageError("required")
       ELSE IF extras \o rest # <<>> THEN UsageError("unrecognized arguments")
       ELSE Parsed(IF take THEN [ns EXCEPT ![p.dest] = v] ELSE ns)

\* the loop of parse_known_args from token i on: positionals and options
\* are consumed in the order they come, the first error or help option ends it
RECURSIVE Consume(_, _, _, _, _, _, _)
Consume(parser, toks, kinds, i, ns, seen, extras) ==
   LET n       == Len(toks)
       options == {j \in i..n : kinds[j].k = "O"}
   IN
   IF options = {} THEN Finish(parser, toks, i, ns, seen, extras)
   ELSE IF kinds[i].k = "A" /\ ~seen
   THEN \* consume_positionals
        LET v == _get_value(parser.positional, toks[i])
        IN  IF v = TypeError THEN UsageError("invalid value")
            ELSE Consume(parser, toks, kinds, i + 1,
                         [ns EXCEPT ![parser.positional.dest] = v], TRUE, extras)
   ELSE \* arguments no positional takes are extras; then consume_optional
        LET o     == CHOOSE j \in options : \A j2 \in options : j <= j2
            ex    == extras \o SubSeq(toks, i, o - 1)
            opt   == kinds[o].opt
            a     == ActionOf(parser, opt)
            last  == ArgRunEnd(kinds, o + 1)
            vals  == [k \in 1..(last - o) |-> _get_value(a, toks[o + k])]
        IN  IF opt = ""
            THEN Consume(parser, toks, kinds, o + 1, ns, seen, ex \o <<toks[o]>>)
            ELSE IF a.action = "help" THEN HelpExit
            ELSE IF a.action = "store_true"
            THEN Consume(parser, toks, kinds, o + 1,
                         [ns EXCEPT ![a.dest] = PyBool(TRUE)], seen, ex)
            ELSE IF a.nargs = "*"
            THEN IF \E k \in 1..(last - o) : vals[k] = TypeError
                 THEN UsageError("invalid value")
                 ELSE Consume(parser, toks, kinds, last + 1,
                              [ns EXCEPT ![a.dest] = StoreValues(vals, last - o)],
                              seen, ex)
            ELSE IF last = o THEN UsageError("expected one argument")
            ELSE IF vals[1] = TypeError THEN UsageError("invalid value")
            ELSE Consume(parser, toks, kinds, o + 2, [ns EXCEPT ![a.dest] = vals[1]],
                         seen, ex)

\* parser.parse_args(toks)
parse_args(parser, toks) ==
   LET kinds == [j \in 1..Len(toks) |-> _parse_optional(parser, toks[j])]
   IN  IF \E j \in 1..Len(toks) : kinds[j].k = "ambiguous"
       THEN UsageError("ambiguous option")
       ELSE Consume(parser, toks, kinds, 1, Defaults(parser), FALSE, <<>>)

(***************************************************************************)
(* The process: one run of an entry point on one command line.             *)
(***************************************************************************)
\* print("Use 'asr -h' to view help.")
HELP_HINT == "Use 'asr -h' to view help."

\* what the help option prints before it exits
HELP_TEXT == "usage"

\* the warning of the deprecated entry point
DEPRECATION_WARNING == "VisibleDeprecationWarning"

\* the ways the external review functions can fail
Failures == {"ValueError", "OSError"}

NotExited == [exited |-> FALSE]

Exit(code) == [exited |-> TRUE, code |-> code]

\* the namespace of a process that has not parsed yet
NoArgs == <<>>

\* the command lines (sys.argv[1:]) explored
SeqsUpTo(S, n) == UNION {[1..k -> S] : k \in 0..n}

TopVocab == {"oracle", "simulate", "oracl", "d", "-V", "--version", "--vers",
             "-h", "-x"}

ErrVocab == {"d", "1", "-h", "-x", "--n_instances", "--verbose",
             "--n_prior_included", "--n_prior", "--prior_included", "-m"}

OptVocab == {"--prior_included", "--prior_excluded", "--n_instances", "-m",
             "1", "5", "-1"}

Modi == {AVAILABLE_MODI[k] : k \in 1..Len(AVAILABLE_MODI)}

Inputs ==
   SeqsUpTo(TopVocab, MaxArgs)
   \cup {<<m>> \o s : m \in Modi, s \in SeqsUpTo(ErrVocab, MaxArgs)}
   \cup {<<m, "d">> \o s : m \in Modi, s \in SeqsUpTo(OptVocab, MaxOpts)}

Init ==
   /\ entry \in {"main", "main_depr"}
   /\ argv \in Inputs
   /\ pc = entry
   /\ args = NoArgs
   /\ calls = <<>>
   /\ stdout = <<>>
   /\ stderr = <<>>
   /\ exitcode = NotExited
   /\ exc = "none"

\* the interpreter ends: status 0 when main() returned, status 1 when an
\* exception left it
Return ==
   /\ pc' = "exit"
   /\ exitcode' = Exit(0)

\* parse_args ends the process itself: sys.exit(2) after the usage message
\* on stderr, sys.exit(0) after the help text on stdout
ParserExit(r) ==
   /\ pc' = "exit"
   /\ IF r.status = "help"
      THEN /\ stdout' = Append(stdout, HELP_TEXT)
           /\ stderr' = stderr
           /\ exitcode' = Exit(0)
      ELSE /\ stdout' = stdout
           /\ stderr' = Append(stderr, r.error)
           /\ exitcode' = Exit(2)
   /\ UNCHANGED <<args, calls, exc>>

\* faulty variant of args_dict: the dataset is read but not popped
args_dict_keep_dataset(ns) == ns

\* args_dict = vars(args); path = args_dict.pop("dataset")
args_dict(ns) == [d \in (DOMAIN ns) \ {"dataset"} |-> ns[d]]

\* faulty variant of Review: a failure is caught, the help hint is printed
\* and main() returns
Review_catch(fn) ==
   \E outcome \in {"return"} \cup Failures :
      /\ calls' = Append(calls, [fn |-> fn, path |-> args.dataset,
                                 kwargs |-> args_dict(args),
                                 outcome |-> outcome])
      /\ pc' = "exit"
      /\ exc' = "none"
      /\ exitcode' = Exit(0)
      /\ stdout' = IF outcome = "return" THEN stdout
                   ELSE Append(stdout, HELP_HINT)
      /\ UNCHANGED <<args, stderr>>

\* fn(path, **args_dict), for each way the external function can end; a
\* failure is not caught anywhere, so it leaves main() as it was raised
Review(fn) ==
   \E outcome \in {"return"} \cup Failures :
      /\ calls' = Append(calls, [fn |-> fn, path |-> args.dataset,
                                 kwargs |-> args_dict(args),
                                 outcome |-> outcome])
      /\ pc' = "exit"
      /\ exc' = IF outcome = "return" THEN "none" ELSE outcome
      /\ exitcode' = IF outcome = "return" THEN Exit(0) ELSE Exit(1)
      /\ UNCHANGED <<args, stdout, stderr>>

\* faulty variant of main_depr: the warning is given but main() is not run
main_depr_without_main ==
   /\ pc = "main_depr"
   /\ stderr' = Append(stderr, DEPRECATION_WARNING)
   /\ pc' = "exit"
   /\ exitcode' = Exit(0)
   /\ UNCHANGED <<entry, argv, args, calls, stdout, exc>>

\* main_depr(): warn, then main()
main_depr ==
   /\ pc = "main_depr"
   /\ stderr' = Append(stderr, DEPRECATION_WARNING)
   /\ pc' = "main"
   /\ UNCHANGED <<entry, argv, args, calls, stdout, exitcode, exc>>

\* main(): sys.argv[1] == "oracle"
main_oracle ==
   /\ pc = "main"
   /\ Len(argv) > 0 /\ argv[1] = "oracle"
   /\ pc' = "_review_oracle"
   /\ UNCHANGED <<entry, argv, args, calls, stdout, stderr, exitcode, exc>>

\* main(): sys.argv[1] == "simulate"
main_simulate ==
   /\ pc = "main"
   /\ ~(Len(argv) > 0 /\ argv[1] = "oracle")
   /\ Len(argv) > 0 /\ argv[1] = "simulate"
   /\ pc' = "_review_simulate"
   /\ UNCHANGED <<entry, argv, args, calls, stdout, stderr, exitcode, exc>>

\* main(): no valid sub command, the top-level parser reads sys.argv[1:]
main_parse ==
   /\ pc = "main"
   /\ ~(Len(argv) > 0 /\ argv[1] = "oracle")
   /\ ~(Len(argv) > 0 /\ argv[1] = "simulate")
   /\ LET r == parse_args(TopParser, argv)
      IN  IF r.status = "ok"
          THEN /\ args' = r.ns
               /\ pc' = "main_parsed"
               /\ UNCHANGED <<calls, stdout, stderr, exitcode, exc>>
          ELSE ParserExit(r)
   /\ UNCHANGED <<entry, argv>>

\* faulty variant of main_version: the return is missing, so the test of
\* the subcommand follows
main_version_without_return ==
   /\ pc = "main_parsed"
   /\ args.version = PyBool(TRUE)
   /\ stdout' = IF args.subcommand = None
                THEN stdout \o <<__version__, HELP_HINT>>
                ELSE Append(stdout, __version__)
   /\ Return
   /\ UNCHANGED <<entry, argv, args, calls, stderr, exc>>

\* main(): if args.version: print(__version__); return
main_version ==
   /\ pc = "main_parsed"
   /\ args.version = PyBool(TRUE)
   /\ stdout' = Append(stdout, __version__)
   /\ Return
   /\ UNCHANGED <<entry, argv, args, calls, stderr, exc>>

\* main(): if args.subcommand is None: print(hint)
main_hint ==
   /\ pc = "main_parsed"
   /\ args.version # PyBool(TRUE)
   /\ args.subcommand = None
   /\ stdout' = Append(stdout, HELP_HINT)
   /\ Return
   /\ UNCHANGED <<entry, argv, args, calls, stderr, exc>>

\* main(): neither condition holds, main() returns
main_return ==
   /\ pc = "main_parsed"
   /\ args.version # PyBool(TRUE)
   /\ args.subcommand # None
   /\ Return
   /\ UNCHANGED <<entry, argv, args, calls, stdout, stderr, exc>>

\* _review_oracle(): parser.parse_args(sys.argv[2:])
_review_oracle_parse ==
   /\ pc = "_review_oracle"
   /\ LET r == parse_args(_parse_arguments("oracle"), Tail(argv))
      IN  IF r.status = "ok"
          THEN /\ args' = r.ns
               /\ pc' = "review_oracle"
               /\ UNCHANGED <<calls, stdout, stderr, exitcode, exc>>
          ELSE ParserExit(r)
   /\ UNCHANGED <<entry, argv>>

\* _review_oracle(): review_oracle(path, **args_dict)
_review_oracle_call ==
   /\ pc = "review_oracle"
   /\ Review("review_oracle")
   /\ UNCHANGED <<entry, argv>>

\* _review_simulate(): parser.parse_args(sys.argv[2:])
_review_simulate_parse ==
   /\ pc = "_review_simulate"
   /\ LET r == parse_args(_parse_arguments("simulate"), Tail(argv))
      IN  IF r.status = "ok"
          THEN /\ args' = r.ns
               /\ pc' = "review_simulate"
               /\ UNCHANGED <<calls, stdout, stderr, exitcode, exc>>
          ELSE ParserExit(r)
   /\ UNCHANGED <<entry, argv>>

\* _review_simulate(): review_simulate(path, **args_dict)
_review_simulate_call ==
   /\ pc = "review_simulate"
   /\ Review("review_simulate")
   /\ UNCHANGED <<entry, argv>>

Next ==
   \/ main_depr
   \/ main_oracle
   \/ main_simulate
   \/ main_parse
   \/ main_version
   \/ main_hint
   \/ main_return
   \/ _review_oracle_parse
   \/ _review_oracle_call
   \/ _review_simulate_parse
   \/ _review_simulate_call

Spec == Init /\ [][Next]_vars

(***************************************************************************)
(* The documented interface, as the claims use it: the flags and the       *)
(* field each one sets, the documented defaults, and the shape of a        *)
(* well-formed option list.  None of it is derived from the parsers above. *)
(***************************************************************************)
IntOf == "1" :> 1 @@ "5" :> 5 @@ "-1" :> (0 - 1)

IntToks == DOMAIN IntOf

WordToks == {"d", "oracl", "oracle", "simulate"}

ValueToks == WordToks \cup IntToks

StrFlagField ==
   "-m" :> "model" @@ "--model" :> "model" @@
   "-q" :> "query_strategy" @@ "--query_strategy" :> "query_strategy" @@
   "-b" :> "balance_strategy" @@ "--balance_strategy" :> "balance_strategy" @@
   "--embedding" :> "embedding_fp" @@ "--config_file" :> "config_file" @@
   "-s" :> "src_log_fp" @@ "--session-from-log" :> "src_log_fp" @@
   "--log_file" :> "log_file" @@ "-l" :> "log_file" @@
   "--save_model" :> "save_model_fp"

IntFlagField ==
   "--n_instances" :> "n_instances" @@ "--n_queries" :> "n_queries" @@
   "--verbose" :> "verbose" @@ "-v" :> "verbose"

SimulateFlagField ==
   "--n_prior_included" :> "n_prior_included" @@
   "--n_prior_excluded" :> "n_prior_excluded"

ListFlagField ==
   "--prior_included" :> "prior_included" @@
   "--prior_excluded" :> "prior_excluded"

FlagField == StrFlagField @@ IntFlagField @@ SimulateFlagField @@ ListFlagField

IntFlags(mode) ==
   DOMAIN IntFlagField
   \cup (IF mode = "simulate" THEN DOMAIN SimulateFlagField ELSE {})

OracleDefaults ==
   "model" :> PyStr("lstm_pool") @@
   "query_strategy" :> PyStr("rand_max") @@
   "balance_strategy" :> PyStr("triple_balance") @@
   "n_instances" :> PyInt(20) @@
   "verbose" :> PyInt(1) @@
   "n_queries" :> None @@ "embedding_fp" :> None @@ "config_file" :> None @@
   "src_log_fp" :> None @@ "prior_included" :> None @@
   "prior_excluded" :> None @@ "log_file" :> None @@ "save_model_fp" :> None

SimulateDefaults ==
   OracleDefaults @@
   "n_prior_included" :> PyInt(10) @@ "n_prior_excluded" :> PyInt(10)

DocDefaults(mode) ==
   IF mode = "simulate" THEN SimulateDefaults ELSE OracleDefaults

\* a list of options, each a documented flag of the mode with its value(s)
RECURSIVE WellFormedOptions(_, _)
WellFormedOptions(mode, opts) ==
   \/ opts = <<>>
   \/ /\ Len(opts) >= 2
      /\ opts[1] \in DOMAIN StrFlagField
      /\ opts[2] \in ValueToks
      /\ WellFormedOptions(mode, SubSeq(opts, 3, Len(opts)))
   \/ /\ Len(opts) >= 2
      /\ opts[1] \in IntFlags(mode)
      /\ opts[2] \in IntToks
      /\ WellFormedOptions(mode, SubSeq(opts, 3, Len(opts)))
   \/ /\ opts # <<>>
      /\ opts[1] \in DOMAIN ListFlagField
      /\ \E n \in 0..(Len(opts) - 1) :
            /\ \A k \in 2..(n + 1) : opts[k] \in IntToks
            /\ WellFormedOptions(mode, SubSeq(opts, n + 2, Len(opts)))

\* the options of the command line, after `<mode> <path>`
Opts == SubSeq(argv, 3, Len(argv))

\* `<mode> <path>` followed by zero or more well-formed options
Invocation(mode) ==
   /\ Len(argv) >= 2
   /\ argv[1] = mode
   /\ argv[2] \in ValueToks
   /\ WellFormedOptions(mode, Opts)

\* the fields whose flag is on the command line
GivenFields == {FlagField[Opts[j]] : j \in {k \in 1..Len(Opts) : Opts[k] \in DOMAIN FlagField}}

\* the number of integers that directly follow position j of the options
RECURSIVE RunLen(_, _)
RunLen(opts, j) ==
   IF j + 1 <= Len(opts) /\ opts[j + 1] \in IntToks
   THEN 1 + RunLen(opts, j + 1)
   ELSE 0

Done == pc = "exit"

HelpRequested == \E j \in 1..Len(argv) : argv[j] \in {"-h", "--help"}

VersionFlags == {"-V", "--version", "--vers"}

(***************************************************************************)
(* C1: `oracle <path>` followed by well-formed options calls the oracle    *)
(* review function exactly once and the simulate review function never,    *)
(* with <path> as the positional argument, no 'dataset' keyword, and every *)
(* option that was not given at its documented default.                    *)
(***************************************************************************)
C1_OracleCalledOnceWithDefaults ==
   Invocation("oracle") =>
      /\ Len(calls) <= 1
      /\ \A k \in 1..Len(calls) : calls[k].fn = "review_oracle"
      /\ Done =>
            /\ Len(calls) = 1
            /\ calls[1].path = PyStr(argv[2])
            /\ "dataset" \notin DOMAIN calls[1].kwargs
            /\ \A f \in (DOMAIN OracleDefaults) \ GivenFields :
                  /\ f \in DOMAIN calls[1].kwargs
                  /\ calls[1].kwargs[f] = OracleDefaults[f]

C1_Witness ==
   /\ Done
   /\ Invocation("oracle")
   /\ Opts = <<"-m", "1", "--n_instances", "5">>
   /\ Len(calls) = 1
   /\ calls[1].kwargs["verbose"] = PyInt(1)

(***************************************************************************)
(* C2: `simulate <path> --n_instances N` forwards n_instances = N and      *)
(* every other field at its default, n_prior_included = 10 and             *)
(* n_prior_excluded = 10 among them; in general the fields whose option    *)
(* was not given are at their defaults.                                    *)
(***************************************************************************)
C2_OnlyGivenFieldsChange ==
   (Invocation("simulate") /\ Done) =>
      /\ Len(calls) = 1
      /\ calls[1].fn = "review_simulate"
      /\ \A f \in (DOMAIN SimulateDefaults) \ GivenFields :
            /\ f \in DOMAIN calls[1].kwargs
            /\ calls[1].kwargs[f] = SimulateDefaults[f]
      /\ \A n \in IntToks :
            Opts = <<"--n_instances", n>> =>
               calls[1].kwargs =
                  [SimulateDefaults EXCEPT !["n_instances"] = PyInt(IntOf[n])]

C2_Witness ==
   /\ Done
   /\ argv = <<"simulate", "d", "--n_instances", "5">>
   /\ Len(calls) = 1
   /\ calls[1].kwargs["n_instances"] = PyInt(5)
   /\ calls[1].kwargs["n_prior_included"] = PyInt(10)

(***************************************************************************)
(* C3: when the first argument is absent or no mode name and the top-level *)
(* parser succeeds, something is printed: the version string when the      *)
(* version flag was given, the help hint otherwise.                        *)
(***************************************************************************)
C3_FallbackAlwaysPrints ==
   (/\ Done
    /\ argv = <<>> \/ argv[1] \notin Modi
    /\ args # NoArgs) =>
      IF \E j \in 1..Len(argv) : argv[j] \in VersionFlags
      THEN stdout = <<__version__>>
      ELSE stdout = <<HELP_HINT>>

(***************************************************************************)
(* C4: `-V` or `--version`, alone or followed by a mode name, prints the   *)
(* version string and nothing else, never reaches a review function, and   *)
(* ends with exit code 0.                                                  *)
(***************************************************************************)
VersionInvocation ==
   /\ Len(argv) \in {1, 2}
   /\ argv[1] \in {"-V", "--version"}
   /\ Len(argv) = 2 => argv[2] \in Modi

C4_VersionOnly ==
   VersionInvocation =>
      /\ calls = <<>>
      /\ pc \notin {"_review_oracle", "_review_simulate", "review_oracle",
                    "review_simulate"}
      /\ stdout \in {<<>>, <<__version__>>}
      /\ entry = "main" => stderr = <<>>
      /\ Done => (stdout = <<__version__>> /\ exitcode = Exit(0))

C4_Witness ==
   /\ Done
   /\ argv = <<"-V", "oracle">>
   /\ stdout = <<__version__>>
   /\ exitcode = Exit(0)

(***************************************************************************)
(* C5: with no arguments at all, the help hint is printed exactly once, no *)
(* review function is invoked, and the exit code is 0.                     *)
(***************************************************************************)
C5_NoArgumentsPrintsHint ==
   argv = <<>> =>
      /\ calls = <<>>
      /\ stdout \in {<<>>, <<HELP_HINT>>}
      /\ Done => (stdout = <<HELP_HINT>> /\ exitcode = Exit(0))

C5_Witness ==
   /\ Done
   /\ argv = <<>>
   /\ stdout = <<HELP_HINT>>

(***************************************************************************)
(* C6: in both modes the integers given after --prior_included (or         *)
(* --prior_excluded) are forwarded as that sequence, with the same length, *)
(* order and duplicates; the field is none when the flag is not given, and *)
(* the empty sequence, which is not none, when it is given with no value.  *)
(***************************************************************************)
C6_PriorListsForwarded ==
   \A m \in Modi :
      (Invocation(m) /\ Done) =>
         /\ Len(calls) = 1
         /\ \A flag \in DOMAIN ListFlagField :
               LET occ   == {j \in 1..Len(Opts) : Opts[j] = flag}
                   j     == CHOOSE k \in occ : TRUE
                   n     == RunLen(Opts, j)
                   value == calls[1].kwargs[ListFlagField[flag]]
               IN  /\ occ = {} => value = None
                   /\ Cardinality(occ) = 1 =>
                         /\ value = PyList([k \in 1..n |-> IntOf[Opts[j + k]]])
                         /\ value # None

C6_Witness ==
   /\ Done
   /\ argv = <<"simulate", "d", "--prior_included", "5", "1", "--prior_excluded">>
   /\ calls[1].kwargs["prior_included"] = PyList(<<5, 1>>)
   /\ calls[1].kwargs["prior_excluded"] = PyList(<<>>)

(***************************************************************************)
(* C7: the fields of the forwarded configuration depend on the mode alone: *)
(* simulate has n_prior_included and n_prior_excluded, oracle has neither, *)
(* all other fields are in both; an oracle command line that has           *)
(* --n_prior_included or --n_prior_excluded fails in the parser and never  *)
(* reaches the oracle review function (a command line that asks for help   *)
(* shows the help instead).                                                *)
(***************************************************************************)
C7_FieldSetByMode ==
   /\ \A k \in 1..Len(calls) :
         /\ calls[k].fn = "review_oracle" =>
               DOMAIN calls[k].kwargs = DOMAIN OracleDefaults
         /\ calls[k].fn = "review_simulate" =>
               DOMAIN calls[k].kwargs =
                  (DOMAIN OracleDefaults)
                  \cup {"n_prior_included", "n_prior_excluded"}
   /\ (/\ argv # <<>>
       /\ argv[1] = "oracle"
       /\ \E j \in 2..Len(argv) : argv[j] \in DOMAIN SimulateFlagField) =>
         /\ calls = <<>>
         /\ pc # "review_oracle"
         /\ (Done /\ ~HelpRequested) =>
               (exitcode = Exit(2) /\ stdout = <<>> /\ Len(stderr) >= 1)

C7_Witness ==
   /\ Done
   /\ argv = <<"oracle", "d", "--n_prior_included", "1">>
   /\ exitcode = Exit(2)
   /\ calls = <<>>

(***************************************************************************)
(* C8: malformed arguments after a mode name (dataset missing, unknown     *)
(* flag, non-integer value of an integer option or of a prior list) end    *)
(* the process with a non-zero status and no review function is invoked;   *)
(* exit code 0 occurs only when the review call completed normally or      *)
(* help or the version was displayed.                                      *)
(***************************************************************************)
Malformed ==
   /\ argv # <<>>
   /\ argv[1] \in Modi
   /\ ~HelpRequested
   /\ \/ Len(argv) = 1
      \/ \E j \in 2..Len(argv) : argv[j] = "-x"
      \/ \E j \in 2..(Len(argv) - 1) :
            /\ argv[j] \in IntFlags(argv[1]) \cup DOMAIN ListFlagField
            /\ argv[j + 1] \in WordToks

C8_MalformedExitsNonZero ==
   Malformed =>
      /\ calls = <<>>
      /\ Done => (exitcode.code # 0 /\ Len(stderr) >= 1)

C8_ExitZeroOnlyOnCompletionOrDisplay ==
   (Done /\ exitcode = Exit(0)) =>
      \/ Len(calls) = 1 /\ calls[1].outcome = "return"
      \/ stdout # <<>>

\* C8, both halves: malformed arguments exit non-zero without a review call,
\* and exit code 0 only after a completed review call or a display
C8_MalformedAndExitCodes ==
   /\ C8_MalformedExitsNonZero
   /\ C8_ExitZeroOnlyOnCompletionOrDisplay

(***************************************************************************)
(* C9: main_depr() warns before anything else happens and then behaves as  *)
(* main(): for every command line the review call (function, path and      *)
(* configuration), the printed output and the exit status are those of     *)
(* main() on that command line.                                            *)
(***************************************************************************)
\* what main() does on command line av when the review function, if it is
\* called, ends with oc
MainResult(av, oc) ==
   LET mode == IF av # <<>> /\ av[1] \in {"oracle", "simulate"}
               THEN av[1] ELSE "none"
       r    == IF mode = "none" THEN parse_args(TopParser, av)
               ELSE parse_args(_parse_arguments(mode), Tail(av))
       quiet == [calls |-> <<>>, stdout |-> <<>>, stderr |-> <<>>,
                 exitcode |-> Exit(0), exc |-> "none"]
   IN  IF r.status = "help" THEN [quiet EXCEPT !.stdout = <<HELP_TEXT>>]
       ELSE IF r.status = "error"
       THEN [quiet EXCEPT !.stderr = <<r.error>>, !.exitcode = Exit(2)]
       ELSE IF mode = "none"
       THEN [quiet EXCEPT !.stdout =
                IF r.ns.version = PyBool(TRUE) THEN <<__version__>>
                ELSE IF r.ns.subcommand = None THEN <<HELP_HINT>>
                ELSE <<>>]
       ELSE [quiet EXCEPT
                !.calls = <<[fn |-> IF mode = "oracle" THEN "review_oracle"
                                    ELSE "review_simulate",
                             path |-> r.ns.dataset,
                             kwargs |-> args_dict(r.ns),
                             outcome |-> oc]>>,
                !.exitcode = IF oc = "return" THEN Exit(0) ELSE Exit(1),
                !.exc = IF oc = "return" THEN "none" ELSE oc]

\* what the process did, the deprecation warning aside
Observed ==
   [calls |-> calls, stdout |-> stdout,
    stderr |-> IF entry = "main_depr" THEN Tail(stderr) ELSE stderr,
    exitcode |-> exitcode, exc |-> exc]

C9_DeprecatedEntryBehavesAsMain ==
   /\ pc = "main_depr" =>
         (calls = <<>> /\ stdout = <<>> /\ stderr = <<>> /\ args = NoArgs
          /\ exitcode = NotExited)
   /\ (entry = "main_depr" /\ pc # "main_depr") =>
         (stderr # <<>> /\ stderr[1] = DEPRECATION_WARNING)
   /\ Done =>
         Observed = MainResult(argv, IF calls = <<>> THEN "return"
                                     ELSE calls[1].outcome)

C9_Witness ==
   /\ Done
   /\ entry = "main_depr"
   /\ argv = <<"simulate", "d", "--n_instances", "5">>
   /\ stderr = <<DEPRECATION_WARNING>>
   /\ Len(calls) = 1
   /\ calls[1].outcome = "return"

(***************************************************************************)
(* C10: a failure of the review function that was dispatched to leaves the *)
(* process as it was raised: it is not caught, translated or replaced, no  *)
(* review function is called again, and neither the version string nor the *)
(* help hint is printed afterwards.                                        *)
(***************************************************************************)
C10_ReviewFailurePropagates ==
   \A k \in 1..Len(calls) :
      calls[k].outcome \in Failures =>
         /\ Len(calls) = 1
         /\ Done
         /\ exc = calls[k].outcome
         /\ exitcode.code # 0
         /\ stdout = <<>>
         /\ ~ENABLED Next

C10_Witness ==
   /\ Done
   /\ Len(calls) = 1
   /\ calls[1].fn = "review_oracle"
   /\ calls[1].outcome = "OSError"
   /\ exc = "OSError"
====
